---- MODULE Spec2Model ----
(***************************************************************************)
(* A model of the atem-rs client: the packet codec (src/src/packet.rs),    *)
(* the record splitter and command dispatch (src/src/command.rs) and the   *)
(* session engine with its message channel (src/src/lib.rs).               *)
(*                                                                         *)
(* Byte buffers are sequences of 0..255.  The engine task, the consumer    *)
(* and the peer (who chooses the datagrams and whether an I/O call fails)  *)
(* are interleaved.                                                        *)
(***************************************************************************)
EXTENDS Integers, Sequences, FiniteSets, TLC

VARIABLES
    pc,         \* position of the engine task inside run()
    packet_id,  \* run(): let mut packet_id (u16)
    packets,    \* run(): the bytes of the datagram not yet deserialized
    packet,     \* run(): the packet being processed
    payload,    \* run(): the bytes of the payload not yet parsed
    sent,       \* datagrams written to the socket, in order
    chan,       \* contents of the unbounded mpsc channel
    txAlive,    \* the UnboundedSender still exists (run() has not ended)
    rxAlive,    \* the Connection (UnboundedReceiver) still exists
    delivered,  \* results of recv_message() seen by the consumer, in order
    nrecv,      \* number of datagrams received so far
    log,        \* history of the engine's effects, in order
    opener,     \* the caller's position inside Connection::open and its argument
    socket,     \* what Connection::open has done with the UdpSocket
    dropAt,     \* number of datagrams received when the Connection was dropped
    codec       \* a packet taken through serialize and deserialize

vars == <<pc, packet_id, packets, packet, payload, sent, chan, txAlive,
          rxAlive, delivered, nrecv, log, opener, socket, dropAt, codec>>

----------------------------------------------------------------------------
(* Bounds *)

MaxDatagrams == 2

\* payloads of every length up to this one are serialized, besides the
\* hello body and the longest payload
MaxShortLen == 2

----------------------------------------------------------------------------
(* Integer helpers: fixed-width arithmetic and big-endian byte access *)

RECURSIVE BitAnd(_, _)
BitAnd(a, b) ==
    IF a = 0 \/ b = 0 THEN 0
    ELSE ((a % 2) * (b % 2)) + 2 * BitAnd(a \div 2, b \div 2)

RECURSIVE BitOr(_, _)
BitOr(a, b) ==
    IF a = 0 THEN b
    ELSE IF b = 0 THEN a
    ELSE (IF (a % 2) + (b % 2) > 0 THEN 1 ELSE 0) + 2 * BitOr(a \div 2, b \div 2)

U16Mod == 65536

get_u16(b, i) == b[i] * 256 + b[i + 1]

\* a plausible slip: the low byte is written first
put_u16_le(v) == <<v % 256, (v \div 256) % 256>>

\* BufMut::put_u16: big-endian
put_u16(v) == <<(v \div 256) % 256, v % 256>>

Drop(b, n) == SubSeq(b, n + 1, Len(b))

Take(b, n) == SubSeq(b, 1, n)

----------------------------------------------------------------------------
(* packet.rs *)

HEADER_SIZE == 12

ACK_REQUEST == 1
HELLO == 2
RESEND == 4
ACK == 16

\* the union of the flags PacketFlag declares
PacketFlagAll == 23

\* bitflags from_bits: None when a bit outside the declared flags is set
PacketFlag_from_bits(bits) ==
    IF BitAnd(bits, 31 - PacketFlagAll) # 0
    THEN [some |-> FALSE, bits |-> 0]
    ELSE [some |-> TRUE, bits |-> bits]

Packet_new(flags, uid, ack_id, id, payload_opt) ==
    [flags |-> flags, uid |-> uid, ack_id |-> ack_id, id |-> id,
     payload |-> payload_opt]

NoBytes == [some |-> FALSE, bytes |-> <<>>]

SomeBytes(b) == [some |-> TRUE, bytes |-> b]

SomeFlags(bits) == [some |-> TRUE, bits |-> bits]

new_ack(uid, ack_id, id) ==
    Packet_new(SomeFlags(ACK), uid, ack_id, id, NoBytes)

\* a plausible slip: the handshake carries another uid
new_hello_packet_other_uid ==
    Packet_new(SomeFlags(HELLO), 22278, 0, 0, SomeBytes(<<1, 0, 0, 0, 0, 0, 0, 0>>))

new_hello_packet ==
    Packet_new(SomeFlags(HELLO), 4919, 0, 0, SomeBytes(<<1, 0, 0, 0, 0, 0, 0, 0>>))

\* a plausible slip: the flags are left out of the first word
serialize_without_flags(p) ==
    LET payload_size == IF p.payload.some THEN Len(p.payload.bytes) % U16Mod ELSE 0
    IN  put_u16((payload_size + HEADER_SIZE) % U16Mod) \o put_u16(p.uid) \o put_u16(p.ack_id)
        \o <<0, 0, 0, 0>> \o put_u16(p.id)
        \o (IF p.payload.some THEN p.payload.bytes ELSE <<>>)

serialize(p) ==
    LET payload_size == IF p.payload.some THEN Len(p.payload.bytes) % U16Mod ELSE 0
        size_flags ==
            IF p.flags.some
            THEN BitOr((p.flags.bits * 2048) % U16Mod, (payload_size + HEADER_SIZE) % U16Mod)
            ELSE (payload_size + HEADER_SIZE) % U16Mod
    IN  put_u16(size_flags) \o put_u16(p.uid) \o put_u16(p.ack_id)
        \o <<0, 0, 0, 0>> \o put_u16(p.id)
        \o (IF p.payload.some THEN p.payload.bytes ELSE <<>>)

NoPacket == Packet_new([some |-> FALSE, bits |-> 0], 0, 0, 0, NoBytes)

\* Packet::deserialize on the buffer b: the packet and the bytes left in the
\* buffer, or a panic (Buf::get_* and Bytes::split_to panic when the buffer
\* is too short; size - HEADER_SIZE overflows when size < 12: a panic in a
\* debug build, a wrapped length that split_to then rejects in a release
\* build).
deserialize(b) ==
    IF Len(b) < HEADER_SIZE
    THEN [panic |-> TRUE, packet |-> NoPacket, rest |-> <<>>]
    ELSE
      LET flag_size == get_u16(b, 1)
          flags == BitAnd(flag_size, 63488) \div 2048
          size == BitAnd(flag_size, 2047)
          uid == get_u16(b, 3)
          ack_id == get_u16(b, 5)
          id == get_u16(b, 11)
          payload_size == (size - HEADER_SIZE) % U16Mod
      IN  IF size < HEADER_SIZE \/ payload_size > Len(b) - HEADER_SIZE
          THEN [panic |-> TRUE, packet |-> NoPacket, rest |-> <<>>]
          ELSE [panic |-> FALSE,
                packet |-> Packet_new(PacketFlag_from_bits(flags), uid, ack_id, id,
                              IF payload_size > 0
                              THEN SomeBytes(SubSeq(b, HEADER_SIZE + 1, HEADER_SIZE + payload_size))
                              ELSE NoBytes),
                rest |-> Drop(b, HEADER_SIZE + payload_size)]

\* a plausible slip: only packets that carry data are acknowledged
ack_request_with_payload(p) ==
    IF p.flags.some THEN BitAnd(p.flags.bits, ACK_REQUEST) # 0 /\ p.payload.some ELSE FALSE

ack_request(p) ==
    IF p.flags.some THEN BitAnd(p.flags.bits, ACK_REQUEST) # 0 ELSE FALSE

is_hello(p) ==
    IF p.flags.some THEN BitAnd(p.flags.bits, HELLO) # 0 ELSE FALSE

----------------------------------------------------------------------------
(* packet.rs: packets built with Packet::new, serialized and read back *)

\* the size field of the first header word is 11 bits wide
SizeMask == 2047

\* the longest payload whose size still fits the size field
MaxPayloadLen == SizeMask - HEADER_SIZE

\* a payload of n bytes
Filler(n) == [i \in 1..n |-> (i * 37) % 256]

\* Option<PacketFlag>: None, or any set of declared flags
CodecFlags ==
    {[some |-> FALSE, bits |-> 0]}
    \cup {SomeFlags(b) : b \in {x \in 0..31 : BitAnd(x, 31 - PacketFlagAll) = 0}}

CodecIds == {0, 22278, 65535}

\* Option<Bytes>: None, empty, short, the hello body, the longest
CodecPayloads ==
    {NoBytes, SomeBytes(<<1, 0, 0, 0, 0, 0, 0, 0>>), SomeBytes(Filler(MaxPayloadLen))}
    \cup {SomeBytes(Filler(n)) : n \in 0..MaxShortLen}

CodecPackets ==
    {Packet_new(f, uid, ack_id, id, pl) :
        f \in CodecFlags, uid \in CodecIds, ack_id \in CodecIds, id \in CodecIds,
        pl \in CodecPayloads}

\* what follows the packet in the buffer handed to deserialize
CodecTails == {<<>>, <<0, 12>>}

NoResult == [panic |-> FALSE, packet |-> NoPacket, rest |-> <<>>]

CodecIdle == [pc |-> "idle", p |-> NoPacket, bytes |-> <<>>, tail |-> <<>>, out |-> NoResult]

\* let bytes = p.serialize()
CodecSerialize ==
    /\ codec.pc = "new"
    /\ codec' = [codec EXCEPT !.pc = "serialized", !.bytes = serialize(codec.p)]
    /\ UNCHANGED <<pc, packet_id, packets, packet, payload, sent, chan, txAlive,
                   rxAlive, delivered, nrecv, log, opener, socket, dropAt>>

\* Packet::deserialize(&mut buf) on a buffer that starts with those bytes
CodecDeserialize ==
    /\ codec.pc = "serialized"
    /\ \E t \in CodecTails :
         codec' = [codec EXCEPT !.pc = "deserialized", !.tail = t,
                                !.out = deserialize(codec.bytes \o t)]
    /\ UNCHANGED <<pc, packet_id, packets, packet, payload, sent, chan, txAlive,
                   rxAlive, delivered, nrecv, log, opener, socket, dropAt>>

----------------------------------------------------------------------------
(* parser.rs and command.rs *)

\* String::from_utf8 accepts exactly the well-formed UTF-8 byte sequences
RECURSIVE Utf8Valid(_)
Utf8Valid(b) ==
    LET n == Len(b)
        Cont(i) == i <= n /\ b[i] >= 128 /\ b[i] <= 191
    IN  IF n = 0 THEN TRUE
        ELSE IF b[1] <= 127 THEN Utf8Valid(Drop(b, 1))
        ELSE IF b[1] >= 194 /\ b[1] <= 223
             THEN Cont(2) /\ Utf8Valid(Drop(b, 2))
        ELSE IF b[1] = 224
             THEN n >= 2 /\ b[2] >= 160 /\ b[2] <= 191 /\ Cont(3) /\ Utf8Valid(Drop(b, 3))
        ELSE IF b[1] = 237
             THEN n >= 2 /\ b[2] >= 128 /\ b[2] <= 159 /\ Cont(3) /\ Utf8Valid(Drop(b, 3))
        ELSE IF b[1] >= 225 /\ b[1] <= 239
             THEN Cont(2) /\ Cont(3) /\ Utf8Valid(Drop(b, 3))
        ELSE IF b[1] = 240
             THEN n >= 2 /\ b[2] >= 144 /\ b[2] <= 191 /\ Cont(3) /\ Cont(4)
                  /\ Utf8Valid(Drop(b, 4))
        ELSE IF b[1] >= 241 /\ b[1] <= 243
             THEN Cont(2) /\ Cont(3) /\ Cont(4) /\ Utf8Valid(Drop(b, 4))
        ELSE IF b[1] = 244
             THEN n >= 2 /\ b[2] >= 128 /\ b[2] <= 143 /\ Cont(3) /\ Cont(4)
                  /\ Utf8Valid(Drop(b, 4))
        ELSE FALSE

\* the bytes before the first NUL (splitn(2, ..).next())
RECURSIVE UntilNul(_)
UntilNul(b) ==
    IF b = <<>> \/ b[1] = 0 THEN <<>> ELSE <<b[1]>> \o UntilNul(Drop(b, 1))

\* parse_str: Ok(Some(text)) or Err(Utf8Error)
parse_str(data) ==
    LET str == UntilNul(data)
    IN  IF Utf8Valid(str) THEN [ok |-> TRUE, text |-> str]
        ELSE [ok |-> FALSE, text |-> <<>>]

\* outcomes of Command::parse
ParsePanic == [panic |-> TRUE, ok |-> FALSE, variant |-> "", data |-> <<>>, rest |-> <<>>]

\* a plausible slip: the decoder's buffer is taken for the rest of the payload
ParseOk_decoder_rest(variant, data, rest) ==
    [panic |-> FALSE, ok |-> TRUE, variant |-> variant, data |-> data, rest |-> <<>>]

ParseOk(variant, data, rest) ==
    [panic |-> FALSE, ok |-> TRUE, variant |-> variant, data |-> data, rest |-> rest]

ParseErr(kind, data, rest) ==
    [panic |-> FALSE, ok |-> FALSE, variant |-> kind, data |-> data, rest |-> rest]

\* the match arms whose decoder reads a fixed number of body bytes with
\* Buf::get_u8 / get_u16 (which panic on a short body)
FixedDecoders ==
    { [tag |-> <<95, 118, 101, 114>>, variant |-> "Version", len |-> 4],                 \* _ver
      [tag |-> <<95, 116, 111, 112>>, variant |-> "Topology", len |-> 16],               \* _top
      [tag |-> <<80, 114, 103, 73>>, variant |-> "ProgramInput", len |-> 4],             \* PrgI
      [tag |-> <<80, 114, 118, 73>>, variant |-> "PreviewInput", len |-> 4],             \* PrvI
      [tag |-> <<84, 114, 80, 115>>, variant |-> "TransitionPosition", len |-> 6],       \* TrPs
      [tag |-> <<84, 105, 109, 101>>, variant |-> "Time", len |-> 4],                    \* Time
      [tag |-> <<80, 111, 119, 114>>, variant |-> "PowerState", len |-> 1],              \* Powr
      [tag |-> <<84, 114, 83, 83>>, variant |-> "TransitionStyleSelection", len |-> 5],  \* TrSS
      [tag |-> <<65, 117, 120, 83>>, variant |-> "AuxSource", len |-> 4],                \* AuxS
      [tag |-> <<77, 118, 73, 110>>, variant |-> "MultiViewInput", len |-> 4],           \* MvIn
      [tag |-> <<84, 67, 67, 99>>, variant |-> "TimeCodeState", len |-> 1],              \* TCCc
      [tag |-> <<86, 105, 100, 77>>, variant |-> "VideoMode", len |-> 1],                \* VidM
      [tag |-> <<86, 117, 77, 67>>, variant |-> "MultiViewVU", len |-> 3],               \* VuMC
      [tag |-> <<83, 97, 77, 119>>, variant |-> "MultiViewSafeArea", len |-> 3],         \* SaMw
      [tag |-> <<77, 118, 80, 114>>, variant |-> "MultiViewLayout", len |-> 3],          \* MvPr
      [tag |-> <<84, 114, 80, 114>>, variant |-> "TransitionPreview", len |-> 2],        \* TrPr
      [tag |-> <<84, 77, 120, 80>>, variant |-> "TransitionMix", len |-> 2],             \* TMxP
      [tag |-> <<84, 68, 112, 80>>, variant |-> "TransitionDip", len |-> 4],             \* TDpP
      [tag |-> <<84, 87, 112, 80>>, variant |-> "TransitionWipe", len |-> 18],           \* TWpP
      [tag |-> <<84, 68, 118, 80>>, variant |-> "TransitionDVE", len |-> 17],            \* TDvP
      [tag |-> <<84, 83, 116, 80>>, variant |-> "TransitionStinger", len |-> 15] }       \* TStP

\* the match arms whose decoders (MeConfig, MediaPlayerConfig,
\* VideoModeConfig) carry the body to the consumer as raw capability bytes
OpaqueDecoders ==
    { [tag |-> <<95, 77, 101, 67>>, variant |-> "MeConfig"],              \* _MeC
      [tag |-> <<95, 109, 112, 108>>, variant |-> "MediaPlayerConfig"],   \* _mpl
      [tag |-> <<95, 86, 77, 67>>, variant |-> "VideoModeConfig"] }       \* _VMC

\* Version::parse
Version_parse(data) == <<get_u16(data, 1), get_u16(data, 3)>>

\* PowerState::parse: <<primary, secondary>> as 0/1
PowerState_parse(data) ==
    <<(IF BitAnd(data[1], 1) > 0 THEN 1 ELSE 0), (IF BitAnd(data[1], 2) > 0 THEN 1 ELSE 0)>>

\* TallyInputs::parse and TallySources::parse: count:u16 then count items
\* of `width` bytes, each read with get_u8 / get_u16
Tally_parse(variant, width, data, rest) ==
    IF Len(data) < 2 THEN ParsePanic
    ELSE LET count == get_u16(data, 1)
         IN  IF Len(data) < 2 + count * width THEN ParsePanic
             ELSE ParseOk(variant, SubSeq(data, 3, 2 + count * width), rest)

InputFlagsAll == 287
FunctionFlagsAll == 31
MixEffectFlagsAll == 255

\* Source::parse
Source_parse(data, rest) ==
    IF Len(data) < 22 THEN ParsePanic
    ELSE LET name == parse_str(SubSeq(data, 3, 22))
         IN  IF ~name.ok THEN ParseErr("Utf8Error", <<>>, rest)
             ELSE IF Len(data) < 26 THEN ParsePanic
             ELSE LET short_name == parse_str(SubSeq(data, 23, 26))
                  IN  IF ~short_name.ok THEN ParseErr("Utf8Error", <<>>, rest)
                      ELSE IF Len(data) < 30 THEN ParsePanic
                      ELSE IF BitAnd(get_u16(data, 29), U16Mod - 1 - InputFlagsAll) # 0
                           THEN ParsePanic
                      ELSE IF Len(data) < 35 THEN ParsePanic
                      ELSE IF BitAnd(data[35], 255 - FunctionFlagsAll) # 0 THEN ParsePanic
                      ELSE IF Len(data) < 36 THEN ParsePanic
                      ELSE IF BitAnd(data[36], 255 - MixEffectFlagsAll) # 0 THEN ParsePanic
                      ELSE ParseOk("Source", Take(data, 36), rest)

\* a plausible slip: an unknown tag ends the decoding of the payload
UnknownTag_stops(cmd, rest) == ParseErr("UnknownCommand", cmd, <<>>)

\* Command::parse, the `_` arm: Err(UnknownCommand(tag)), or Err(Utf8Error)
\* from the `?` when the tag is not UTF-8
UnknownTag(cmd, rest) ==
    IF Utf8Valid(cmd) THEN ParseErr("UnknownCommand", cmd, rest)
    ELSE ParseErr("Utf8Error", <<>>, rest)

\* a plausible slip: the record is read without advancing the buffer
RecordRest_peek(buf, data_size) == buf

\* what payload.split_to(4) and payload.split_to(data_size) leave in the buffer
RecordRest(buf, data_size) == Drop(buf, 8 + data_size)

\* Command::parse on the buffer `buf`
Command_parse(buf) ==
    IF Len(buf) < 8 THEN ParsePanic
    ELSE
      LET size == get_u16(buf, 1)
          cmd == SubSeq(buf, 5, 8)
          data_size == size - 8
      IN  IF size < 8 \/ data_size > Len(buf) - 8 THEN ParsePanic
          ELSE
            LET data == SubSeq(buf, 9, 8 + data_size)
                rest == RecordRest(buf, data_size)
                fixed == {d \in FixedDecoders : d.tag = cmd}
                opaque == {d \in OpaqueDecoders : d.tag = cmd}
            IN  IF fixed # {}
                THEN LET d == CHOOSE x \in fixed : TRUE
                     IN  IF Len(data) < d.len THEN ParsePanic
                         ELSE IF d.variant = "Version"
                              THEN ParseOk(d.variant, Version_parse(data), rest)
                         ELSE IF d.variant = "PowerState"
                              THEN ParseOk(d.variant, PowerState_parse(data), rest)
                         ELSE ParseOk(d.variant, Take(data, d.len), rest)
                ELSE IF opaque # {}
                THEN ParseOk((CHOOSE x \in opaque : TRUE).variant, data, rest)
                ELSE IF cmd = <<95, 112, 105, 110>>      \* _pin
                THEN LET product == parse_str(data)
                     IN  IF product.ok THEN ParseOk("Product", product.text, rest)
                         ELSE ParseErr("Utf8Error", <<>>, rest)
                ELSE IF cmd = <<73, 110, 80, 114>>       \* InPr
                THEN Source_parse(data, rest)
                ELSE IF cmd = <<84, 108, 73, 110>>       \* TlIn
                THEN Tally_parse("TallyInputs", 1, data, rest)
                ELSE IF cmd = <<84, 108, 83, 114>>       \* TlSr
                THEN Tally_parse("TallySources", 3, data, rest)
                ELSE UnknownTag(cmd, rest)

----------------------------------------------------------------------------
(* The peer: the datagrams socket.recv_buf can return *)

\* one packet as it appears on the wire
Wire(flags, uid, id, body) ==
    put_u16(flags * 2048 + HEADER_SIZE + Len(body)) \o put_u16(uid) \o <<0, 0>>
    \o <<0, 0, 0, 0>> \o put_u16(id) \o body

\* one command record as it appears in a payload
Rec(tag, body) == put_u16(8 + Len(body)) \o <<0, 0>> \o tag \o body

RecVer == Rec(<<95, 118, 101, 114>>, <<0, 2, 0, 28>>)

RecXyZw == Rec(<<88, 121, 90, 119>>, <<170, 187>>)

RecPowr == Rec(<<80, 111, 119, 114>>, <<3>>)

\* Powr as the switcher sends it: the body is longer than what the decoder reads
RecPowrLong == Rec(<<80, 111, 119, 114>>, <<1, 0, 0, 0>>)

\* upstream keyer records: me, keyer, on_air
RecKeOn == Rec(<<75, 101, 79, 110>>, <<0, 1, 1, 0>>)

RecKeBP == Rec(<<75, 101, 66, 80>>, <<0, 1, 0, 5, 0, 3, 0, 4>>)

\* the body of an InPr record: id 1, "Cam", "C1", then the given
\* available_inputs, active_input, source_type, available_functions and
\* available_on_me
InPrBody(inputs, active, type, functions, on_me) ==
    <<0, 1>> \o <<67, 97, 109>> \o [i \in 1..17 |-> 0] \o <<67, 49, 0, 0>> \o <<0, 0>>
    \o put_u16(inputs) \o put_u16(active) \o <<type, 0, functions, on_me>>

RecInPr == Rec(<<73, 110, 80, 114>>, InPrBody(1, 1, 0, 1, 1))

\* an InPr record with an input bit no flag is declared for, an input kind
\* and a source type outside the known values
RecInPrUnknown == Rec(<<73, 110, 80, 114>>, InPrBody(33, 9, 200, 1, 1))

\* a _ver record with half of its body
RecVerShort == Rec(<<95, 118, 101, 114>>, <<0, 2>>)

\* a record whose tag is not UTF-8
RecBadTag == Rec(<<255, 254, 65, 66>>, <<>>)

Datagrams ==
    { <<>>,                                               \* empty datagram
      Wire(HELLO, 48879, 7, <<>>),                         \* hello from the peer
      Wire(ACK_REQUEST, 48879, 42, RecVer),                \* acked data packet
      Wire(ACK_REQUEST, 32769, 43, RecVer \o RecXyZw \o RecPowr),
      Wire(0, 48879, 44, RecPowr),                         \* no flags
      Wire(HELLO + ACK_REQUEST, 48879, 8, RecVer),         \* both flags
      Wire(ACK_REQUEST + 8, 48879, 45, RecVer),            \* reserved bit 0x08
      Wire(HELLO + 8, 48879, 9, <<>>),
      Wire(ACK_REQUEST + RESEND, 32769, 42, RecBadTag \o RecPowr),
      Wire(ACK_REQUEST, 48879, 46, <<0, 12, 0, 0, 95, 118>>),  \* truncated record
      <<8, 12, 190>>,                                     \* truncated header
      Wire(HELLO, 32769, 10, <<>>) \o Wire(ACK_REQUEST, 48879, 47, RecPowr),
      <<8, 5, 190, 239, 0, 0, 0, 0, 0, 0, 0, 50>>,        \* declared size 5
      Take(Wire(ACK_REQUEST, 48879, 51, RecPowr), 14),    \* declared size 21 of 14
      Wire(ACK_REQUEST, 48879, 52, Take(RecVer, 10)),     \* record body cut short
      Wire(ACK_REQUEST, 48879, 53, RecPowr) \o Wire(HELLO, 32769, 11, <<>>)
          \o Wire(0, 48879, 54, RecVer),                  \* hello in the middle
      Wire(ACK_REQUEST, 48879, 60,
           RecPowrLong \o RecKeOn \o RecKeBP \o RecInPr \o RecVer),
      Wire(ACK_REQUEST, 48879, 61, RecInPrUnknown \o RecPowr),
      Wire(ACK_REQUEST, 48879, 62, RecVerShort \o RecPowr),
      Wire(ACK_REQUEST, 48879, 63, <<>>) \o Wire(0, 48879, 64, <<>>),    \* no payload
      Wire(ACK_REQUEST + 8, 48879, 65, <<>>)                             \* reserved bit
          \o Wire(HELLO + ACK_REQUEST + 8, 48879, 12, RecVer) }

----------------------------------------------------------------------------
(* lib.rs: messages and the channel *)

Msg(type, variant, data) == [type |-> type, variant |-> variant, data |-> data]

Disconnected == Msg("Disconnected", "SocketError", <<>>)

\* recv_message() returning None
NoMessage == Msg("None", "", <<>>)

\* a plausible slip: the channel hands out the newest message first
tx_send_lifo(q, receiverAlive, m) == IF receiverAlive THEN <<m>> \o q ELSE q

\* UnboundedSender::send: queues the message unless the receiver is gone
tx_send(q, receiverAlive, m) == IF receiverAlive THEN Append(q, m) ELSE q

Ev(ev, pkt, data) == [ev |-> ev, pkt |-> pkt, data |-> data]

\* number of packets taken from datagrams so far
NumRx(l) == Cardinality({i \in DOMAIN l : l[i].ev = "rx"})

----------------------------------------------------------------------------
(* lib.rs: Connection::open *)

IsDigit(c) == c >= 48 /\ c <= 57

\* the pieces of s between occurrences of sep
RECURSIVE SplitOn(_, _)
SplitOn(s, sep) ==
    IF s = <<>> THEN << <<>> >>
    ELSE LET r == SplitOn(Tail(s), sep)
         IN  IF Head(s) = sep THEN << <<>> >> \o r
             ELSE << <<Head(s)>> \o r[1] >> \o Tail(r)

RECURSIVE DecValue(_)
DecValue(digits) ==
    IF digits = <<>> THEN 0
    ELSE DecValue(Take(digits, Len(digits) - 1)) * 10 + (digits[Len(digits)] - 48)

AllDigits(t) == t # <<>> /\ \A i \in DOMAIN t : IsDigit(t[i])

\* one decimal octet of a dotted quad: no leading zero, at most 255
OctetOk(t) ==
    /\ AllDigits(t)
    /\ Len(t) <= 3
    /\ (Len(t) > 1 => t[1] # 48)
    /\ DecValue(t) <= 255

Ipv4Ok(t) ==
    LET parts == SplitOn(t, 46)
    IN  Len(parts) = 4 /\ \A i \in 1..4 : OctetOk(parts[i])

PortOk(t) == AllDigits(t) /\ Len(t) <= 5 /\ DecValue(t) < U16Mod

\* a plausible slip: the address is handed to the socket unparsed
SocketAddr_parse_lenient(text) == TRUE

\* str::parse::<SocketAddr> on the dotted-quad form "a.b.c.d:port";
\* TRUE when it returns Ok
SocketAddr_parse(text) ==
    LET parts == SplitOn(text, 58)
    IN  Len(parts) = 2 /\ Ipv4Ok(parts[1]) /\ PortOk(parts[2])

\* format!("{}:9910", address)
RemoteAddrText(address) == address \o <<58, 57, 57, 49, 48>>

\* the host strings the caller passes: "10.0.0.2", "atem", "10.0.0",
\* "10.0.0.256", "" and "10.0.0.2:80"
Addresses ==
    { <<49, 48, 46, 48, 46, 48, 46, 50>>,
      <<97, 116, 101, 109>>,
      <<49, 48, 46, 48, 46, 48>>,
      <<49, 48, 46, 48, 46, 48, 46, 50, 53, 54>>,
      <<>>,
      <<49, 48, 46, 48, 46, 48, 46, 50, 58, 56, 48>> }

\* open() returns to its caller
Return(result) == [opener EXCEPT !.pc = "returned", !.result = result]

----------------------------------------------------------------------------
(* lib.rs: run() *)

send_hello_packet == serialize(new_hello_packet)

\* a plausible slip: the ack carries the client's own uid
send_ack_own_uid(uid, id, ack_id) == serialize(new_ack(4919, ack_id, id))

send_ack(uid, id, ack_id) == serialize(new_ack(uid, ack_id, id))

\* a plausible slip: the counter advances twice
NextPacketId_twice(id) == (id + 2) % U16Mod

\* packet_id += 1 on a u16
NextPacketId(id) == (id + 1) % U16Mod

\* where run() continues when a packet has been dealt with:
\* while !packets.is_empty(), else the next recv_buf
LoopPc(rest) == IF rest = <<>> THEN "recv" ELSE "packets"

\* `if let Some(mut payload) = packet.payload()` and `while !payload.is_empty()`:
\* the record loop is entered
HasRecords(p) == p.payload.some /\ p.payload.bytes # <<>>

\* a plausible slip: the hello reply leaves the packet loop (break)
AfterHello_break(rest) == "recv"

\* where run() continues after the hello reply: `continue` goes back to the
\* condition of the packet loop
AfterHello(rest) == LoopPc(rest)

\* a plausible slip: the engine carries on with the loop after an I/O error
AfterIoError_continue == "recv"

\* where run() is after an I/O error: return
AfterIoError == "done"

\* the state run() works on before the task exists; packet_id = 0 is run()'s
\* own first statement
EngineIdle ==
    /\ pc = "unspawned"
    /\ packet_id = 0
    /\ packets = <<>>
    /\ packet = NoPacket
    /\ payload = <<>>
    /\ sent = <<>>
    /\ chan = <<>>
    /\ txAlive = FALSE
    /\ rxAlive = FALSE
    /\ delivered = <<>>
    /\ nrecv = 0
    /\ log = <<>>
    /\ dropAt = -1

\* the caller is about to call Connection::open(address)
Init ==
    /\ EngineIdle
    /\ \E a \in Addresses : opener = [pc |-> "call", address |-> a, result |-> ""]
    /\ socket = "none"
    /\ codec = CodecIdle

\* the engine reports an I/O error and returns
Disconnect(events) ==
    /\ chan' = tx_send(chan, rxAlive, Disconnected)
    /\ log' = log \o events \o <<Ev("ioerr", NumRx(log \o events), <<>>),
                                 Ev("pub", NumRx(log \o events), Disconnected)>>
    /\ pc' = AfterIoError
    /\ txAlive' = (AfterIoError # "done")

\* the engine task panics: the task ends and its sender is dropped
Panic(events) ==
    /\ pc' = "panicked"
    /\ txAlive' = FALSE
    /\ log' = log \o events

\* open(): format!("{}:9910", address).parse()?
OpenParse ==
    /\ opener.pc = "call"
    /\ opener' = IF SocketAddr_parse(RemoteAddrText(opener.address))
                 THEN [opener EXCEPT !.pc = "parsed"]
                 ELSE Return("AddrParseError")
    /\ UNCHANGED <<pc, packet_id, packets, packet, payload, sent, chan, txAlive,
                   rxAlive, delivered, nrecv, log, socket, dropAt, codec>>

\* open(): UdpSocket::bind(local_addr).await?
OpenBind ==
    /\ opener.pc = "parsed"
    /\ \E ok \in BOOLEAN :
         IF ok
         THEN /\ opener' = [opener EXCEPT !.pc = "bound"]
              /\ socket' = "bound"
         ELSE /\ opener' = Return("SocketError")
              /\ UNCHANGED socket
    /\ UNCHANGED <<pc, packet_id, packets, packet, payload, sent, chan, txAlive,
                   rxAlive, delivered, nrecv, log, dropAt, codec>>

\* a plausible slip: the socket is handed on without being connected
OpenConnect_skipped ==
    /\ opener.pc = "bound"
    /\ opener' = [opener EXCEPT !.pc = "connected"]
    /\ UNCHANGED <<pc, packet_id, packets, packet, payload, sent, chan, txAlive,
                   rxAlive, delivered, nrecv, log, socket, dropAt, codec>>

\* open(): socket.connect(remote_addr).await? and socket.local_addr()?;
\* on an error the socket is dropped with the frame of open()
OpenConnect ==
    /\ opener.pc = "bound"
    /\ \E ok \in BOOLEAN :
         IF ok
         THEN /\ opener' = [opener EXCEPT !.pc = "connected"]
              /\ socket' = "connected"
         ELSE /\ opener' = Return("SocketError")
              /\ socket' = "closed"
    /\ UNCHANGED <<pc, packet_id, packets, packet, payload, sent, chan, txAlive,
                   rxAlive, delivered, nrecv, log, dropAt, codec>>

\* open(): mpsc::unbounded_channel() and tokio::task::spawn(run(socket, tx));
\* from here the task runs on its own
OpenSpawn ==
    /\ opener.pc = "connected"
    /\ opener' = [opener EXCEPT !.pc = "spawned"]
    /\ pc' = "start"
    /\ txAlive' = TRUE
    /\ rxAlive' = TRUE
    /\ UNCHANGED <<packet_id, packets, packet, payload, sent, chan, delivered,
                   nrecv, log, socket, dropAt, codec>>

\* open(): Ok(Connection { rx })
OpenReturn ==
    /\ opener.pc = "spawned"
    /\ opener' = Return("Ok")
    /\ UNCHANGED <<pc, packet_id, packets, packet, payload, sent, chan, txAlive,
                   rxAlive, delivered, nrecv, log, socket, dropAt, codec>>

\* the caller holds an open Connection
HandleHeld == opener.result = "Ok" /\ rxAlive

\* run(): send_hello_packet(&socket).await
SendHello ==
    /\ pc = "start"
    /\ \E ok \in BOOLEAN :
         IF ok
         THEN /\ sent' = Append(sent, send_hello_packet)
              /\ log' = Append(log, Ev("send", 0, send_hello_packet))
              /\ pc' = "recv"
              /\ UNCHANGED <<chan, txAlive>>
         ELSE /\ Disconnect(<<>>)
              /\ UNCHANGED sent
    /\ UNCHANGED <<packet_id, packets, packet, payload, rxAlive, delivered, nrecv>>
    /\ UNCHANGED <<opener, socket, dropAt, codec>>

\* run(): socket.recv_buf(&mut buf).await
RecvDatagram ==
    /\ pc = "recv"
    /\ \E ok \in BOOLEAN :
         IF ok
         THEN /\ nrecv < MaxDatagrams
              /\ \E d \in Datagrams :
                   /\ packets' = d
                   /\ log' = Append(log, Ev("dgram", NumRx(log), d))
                   /\ pc' = IF Len(d) > 0 THEN LoopPc(d) ELSE "recv"
              /\ nrecv' = nrecv + 1
              /\ UNCHANGED <<chan, txAlive>>
         ELSE /\ Disconnect(<<>>)
              /\ UNCHANGED <<packets, nrecv>>
    /\ UNCHANGED <<packet_id, packet, payload, sent, rxAlive, delivered>>
    /\ UNCHANGED <<opener, socket, dropAt, codec>>

\* run(): one iteration of the packet loop up to the payload loop:
\* Packet::deserialize, then the hello reply or the ack
ProcessPacket ==
    /\ pc = "packets"
    /\ \E r \in {deserialize(packets)}, n \in {NumRx(log) + 1} :
       LET p == r.packet
           raw == Take(packets, Len(packets) - Len(r.rest))
           rx == <<Ev("rx", n, raw)>>
       IN  IF r.panic
           THEN /\ Panic(<<Ev("rx", n, packets)>>)
                /\ UNCHANGED <<packet_id, packets, packet, payload, sent, chan>>
           ELSE IF is_hello(p)
           THEN \E ok \in BOOLEAN :
                  /\ packet' = p
                  /\ packets' = r.rest
                  /\ IF ok
                     THEN /\ sent' = Append(sent, send_ack(p.uid, 0, p.id))
                          /\ log' = log \o rx \o <<Ev("send", n, send_ack(p.uid, 0, p.id))>>
                          /\ pc' = AfterHello(r.rest)
                          /\ UNCHANGED <<chan, txAlive>>
                     ELSE /\ Disconnect(rx)
                          /\ UNCHANGED sent
                  /\ UNCHANGED <<packet_id, payload>>
           ELSE IF ack_request(p)
           THEN \E ok \in BOOLEAN, debug \in BOOLEAN :
                  /\ packet' = p
                  /\ packets' = r.rest
                  /\ IF debug /\ packet_id + 1 >= U16Mod
                     THEN /\ Panic(rx)
                          /\ UNCHANGED <<packet_id, payload, sent, chan>>
                     ELSE /\ packet_id' = NextPacketId(packet_id)
                          /\ IF ok
                             THEN /\ sent' = Append(sent, send_ack(p.uid, packet_id', p.id))
                                  /\ log' = log \o rx
                                            \o <<Ev("send", n, send_ack(p.uid, packet_id', p.id))>>
                                  /\ payload' = p.payload.bytes
                                  /\ pc' = IF HasRecords(p)
                                           THEN "payload" ELSE LoopPc(r.rest)
                                  /\ UNCHANGED <<chan, txAlive>>
                             ELSE /\ Disconnect(rx)
                                  /\ UNCHANGED <<sent, payload>>
           ELSE /\ packet' = p
                /\ packets' = r.rest
                /\ payload' = p.payload.bytes
                /\ pc' = IF HasRecords(p)
                         THEN "payload" ELSE LoopPc(r.rest)
                /\ log' = log \o rx
                /\ UNCHANGED <<packet_id, sent, chan, txAlive>>
    /\ UNCHANGED <<rxAlive, delivered, nrecv, opener, socket, dropAt, codec>>

\* run(): one iteration of the payload loop: Command::parse and tx.send
ParseRecord ==
    /\ pc = "payload"
    /\ \E r \in {Command_parse(payload)} :
       LET m == IF r.ok THEN Msg("Command", r.variant, r.data)
                ELSE Msg("ParsingFailed", r.variant, r.data)
       IN  IF r.panic
           THEN /\ Panic(<<>>)
                /\ UNCHANGED <<payload, chan>>
           ELSE /\ chan' = tx_send(chan, rxAlive, m)
                /\ log' = Append(log, Ev("pub", NumRx(log), m))
                /\ payload' = r.rest
                /\ pc' = IF r.rest # <<>> THEN "payload" ELSE LoopPc(packets)
                /\ UNCHANGED txAlive
    /\ UNCHANGED <<packet_id, packets, packet, sent, rxAlive, delivered, nrecv>>
    /\ UNCHANGED <<opener, socket, dropAt, codec>>

----------------------------------------------------------------------------
(* lib.rs: Connection, the consumer's side *)

\* the consumer has seen recv_message() return None
StreamEnded == delivered # <<>> /\ delivered[Len(delivered)] = NoMessage

\* a plausible slip: an empty queue is reported as the end (try_recv)
recv_is_none_when_empty(q, senderAlive) == q = <<>>

\* UnboundedReceiver::recv resolves to None: the queue is empty and every
\* sender has been dropped
recv_is_none(q, senderAlive) == q = <<>> /\ ~senderAlive

\* Connection::recv_message: the next message, or None once the channel is
\* closed and drained; it waits while the channel is empty and open
RecvMessage ==
    /\ HandleHeld
    /\ IF chan # <<>>
       THEN /\ delivered' = Append(delivered, Head(chan))
            /\ chan' = Tail(chan)
       ELSE /\ recv_is_none(chan, txAlive)
            /\ ~StreamEnded
            /\ delivered' = Append(delivered, NoMessage)
            /\ UNCHANGED chan
    /\ UNCHANGED <<pc, packet_id, packets, packet, payload, sent, txAlive, rxAlive,
                   nrecv, log, opener, socket, dropAt, codec>>

\* the consumer drops the Connection: the receiver closes and the queued
\* messages are discarded
DropConnection ==
    /\ HandleHeld
    /\ rxAlive' = FALSE
    /\ chan' = <<>>
    /\ dropAt' = nrecv
    /\ UNCHANGED <<pc, packet_id, packets, packet, payload, sent, txAlive, delivered,
                   nrecv, log, opener, socket, codec>>

Next ==
    \/ OpenParse
    \/ OpenBind
    \/ OpenConnect
    \/ OpenSpawn
    \/ OpenReturn
    \/ SendHello
    \/ RecvDatagram
    \/ ProcessPacket
    \/ ParseRecord
    \/ RecvMessage
    \/ DropConnection

Spec == Init /\ [][Next]_vars

\* a packet is built with Packet::new; no connection is opened
InitCodec ==
    /\ EngineIdle
    /\ opener = [pc |-> "idle", address |-> <<>>, result |-> ""]
    /\ socket = "none"
    /\ \E p \in CodecPackets : codec = [CodecIdle EXCEPT !.pc = "new", !.p = p]

NextCodec ==
    \/ CodecSerialize
    \/ CodecDeserialize

SpecCodec == InitCodec /\ [][NextCodec]_vars

----------------------------------------------------------------------------
(* Reading the history: what was received, sent and published *)

\* the wire bytes of the n-th packet taken from a datagram
RxRaw(n) == log[CHOOSE i \in DOMAIN log : log[i].ev = "rx" /\ log[i].pkt = n].data

\* the five flag bits, the uid and the id as they stand on the wire
WireFlags(raw) == raw[1] \div 8

WireUid(raw) == raw[3] * 256 + raw[4]

WireAckId(raw) == raw[5] * 256 + raw[6]

WireId(raw) == raw[11] * 256 + raw[12]

WireHasFlag(raw, f) == (WireFlags(raw) \div f) % 2 = 1

IsSendFor(e) == e.ev = "send" /\ e.pkt > 0

IsPub(e) == e.ev = "pub"

\* every message the engine handed to tx.send, in order
Published ==
    LET pubs == SelectSeq(log, IsPub)
    IN  [i \in 1..Len(pubs) |-> pubs[i].data]

\* the acknowledgements sent for packets that do not carry HELLO
IsAckReply(e) == IsSendFor(e) /\ ~WireHasFlag(RxRaw(e.pkt), HELLO)

AckReplies == SelectSeq(log, IsAckReply)

\* what the consumer received, without the final None
Received == IF StreamEnded THEN SubSeq(delivered, 1, Len(delivered) - 1) ELSE delivered

\* the tags of the well-formed records of a payload, in wire order
RECURSIVE WireTags(_)
WireTags(b) ==
    IF Len(b) < 8 THEN <<>>
    ELSE LET size == b[1] * 256 + b[2]
         IN  IF size < 8 \/ size > Len(b) THEN <<>>
             ELSE <<SubSeq(b, 5, 8)>> \o WireTags(SubSeq(b, size + 1, Len(b)))

\* the messages published for the n-th packet, in order
PubsOf(n) ==
    LET IsPubOfN(e) == e.ev = "pub" /\ e.pkt = n /\ e.data.type # "Disconnected"
        pubs == SelectSeq(log, IsPubOfN)
    IN  [i \in 1..Len(pubs) |-> pubs[i].data]

\* the n-th packet has been dealt with: the engine has moved on or stopped
PacketDone(n) ==
    \/ NumRx(log) > n
    \/ NumRx(log) = n /\ pc \in {"recv", "packets"}

----------------------------------------------------------------------------
(* C1 *)

\* C1: every acknowledgement sent in response to a received packet P is
\* exactly 12 bytes with only the ACK flag, carries P's uid (as it stands
\* on the wire in that same packet) and ack_id equal to P's id.
C1_AckEchoesPacket ==
    \A i \in DOMAIN log :
        IsSendFor(log[i]) =>
            LET a == log[i].data
                P == RxRaw(log[i].pkt)
            IN  /\ Len(a) = 12
                /\ WireFlags(a) = ACK
                /\ (a[1] % 8) * 256 + a[2] = 12
                /\ WireUid(a) = WireUid(P)
                /\ WireAckId(a) = WireId(P)

\* two packets with different uids have both been acknowledged
C1_Witness ==
    \E i, j \in DOMAIN log :
        /\ IsSendFor(log[i]) /\ IsSendFor(log[j])
        /\ WireUid(log[i].data) = 48879
        /\ WireUid(log[j].data) = 32769

----------------------------------------------------------------------------
(* C2 *)

\* C2: the k-th acknowledgement sent for an ACK_REQUEST packet carries
\* id = k (1 for the first, then 2, ...), whatever else was received.
C2_AckIdIsCount ==
    \A k \in 1..Len(AckReplies) : WireId(AckReplies[k].data) = k

\* two ack-request replies and a hello reply have been sent
C2_Witness ==
    /\ Len(AckReplies) >= 2
    /\ \E i \in DOMAIN log : IsSendFor(log[i]) /\ ~IsAckReply(log[i])

----------------------------------------------------------------------------
(* C3 *)

\* C3: whenever a Command or ParsingFailed message of a packet that carries
\* ACK_REQUEST or HELLO is published, the ack of that packet has already
\* been written to the socket.
C3_AckBeforePublish ==
    \A i \in DOMAIN log :
        (/\ log[i].ev = "pub"
         /\ log[i].data.type \in {"Command", "ParsingFailed"}
         /\ \/ WireHasFlag(RxRaw(log[i].pkt), ACK_REQUEST)
            \/ WireHasFlag(RxRaw(log[i].pkt), HELLO))
        => \E j \in 1..(i - 1) : log[j].ev = "send" /\ log[j].pkt = log[i].pkt

----------------------------------------------------------------------------
(* C4 *)

\* the variant a record with this tag is published as (for the tags the
\* peer uses here)
VariantOfTag(tag) ==
    IF tag = <<95, 118, 101, 114>> THEN "Version"
    ELSE IF tag = <<80, 111, 119, 114>> THEN "PowerState"
    ELSE IF tag = <<88, 121, 90, 119>> THEN "UnknownCommand"
    ELSE IF tag = <<75, 101, 79, 110>> THEN "UnknownCommand"
    ELSE IF tag = <<75, 101, 66, 80>> THEN "UnknownCommand"
    ELSE IF tag = <<73, 110, 80, 114>> THEN "Source"
    ELSE "Utf8Error"

\* C4: the consumer sees the messages in the order the engine produced
\* them, none lost and none duplicated (what it received followed by what
\* is still queued is exactly what was published while it held the
\* handle); messages of an earlier packet precede those of a later one and
\* the messages of one payload follow the wire order of its records.
C4_Fifo ==
    /\ rxAlive => Received \o chan = Published
    /\ \A i \in DOMAIN Received : Received[i] = Published[i]
    /\ \A i, j \in DOMAIN log :
          (i < j /\ log[i].ev = "pub" /\ log[j].ev = "pub") => log[i].pkt <= log[j].pkt
    /\ \A n \in 1..NumRx(log) :
          LET tags == WireTags(SubSeq(RxRaw(n), 13, Len(RxRaw(n))))
          IN  \A k \in DOMAIN PubsOf(n) :
                 k <= Len(tags) /\ PubsOf(n)[k].variant = VariantOfTag(tags[k])

\* the consumer has received the three messages of one payload and a
\* message of a later packet
C4_Witness ==
    /\ Len(Received) >= 4
    /\ \E i \in DOMAIN Received : Received[i].variant = "UnknownCommand"
    /\ \E i, j \in DOMAIN log :
          log[i].ev = "pub" /\ log[j].ev = "pub" /\ log[i].pkt < log[j].pkt

----------------------------------------------------------------------------
(* C5 *)

\* C5: once the hello has been sent, Connected has been published, and the
\* first message the consumer receives is Connected.
C5_ConnectedFirst ==
    sent # <<>> =>
        /\ \E i \in DOMAIN Published : Published[i].type = "Connected"
        /\ Received # <<>> => Received[1].type = "Connected"

----------------------------------------------------------------------------
(* C6 *)

\* C6: the first datagram sent is the handshake 10 14 13 37 00 00 00 00
\* 00 00 00 00 01 00 00 00 00 00 00 00, nothing is sent or received before
\* it, and no other datagram sent in the session carries HELLO.
C6_HelloFirst ==
    /\ sent # <<>> =>
          sent[1] = <<16, 20, 19, 55, 0, 0, 0, 0, 0, 0, 0, 0, 1, 0, 0, 0, 0, 0, 0, 0>>
    /\ \A i \in 2..Len(sent) : ~WireHasFlag(sent[i], HELLO)
    /\ sent = <<>> => (nrecv = 0 /\ \A i \in DOMAIN log : log[i].ev \notin {"dgram", "rx", "send"})
    /\ pc \in {"recv", "packets", "payload"} => sent # <<>>

\* the handshake has been followed by a received datagram and an ack
C6_Witness == Len(sent) >= 2 /\ nrecv >= 1

----------------------------------------------------------------------------
(* C7 *)

\* C7: a received packet that carries HELLO is answered (unless the send
\* fails) by exactly one datagram, an ACK-only reply with id 0, the
\* packet's uid and ack_id equal to the packet's id; no later ack-request
\* reply skips an id because of it, and no message is published for it.
C7_HelloReply ==
    \A i \in DOMAIN log :
        (/\ log[i].ev = "rx"
         /\ Len(log[i].data) >= 12
         /\ WireHasFlag(log[i].data, HELLO)
         /\ ~\E j \in DOMAIN log : log[j].ev = "ioerr" /\ log[j].pkt = log[i].pkt)
        => /\ Cardinality({j \in DOMAIN log : log[j].ev = "send" /\ log[j].pkt = log[i].pkt}) = 1
           /\ \A j \in DOMAIN log :
                 (log[j].ev = "send" /\ log[j].pkt = log[i].pkt) =>
                     /\ log[j].data = <<128, 12>> \o SubSeq(log[i].data, 3, 4)
                                      \o SubSeq(log[i].data, 11, 12) \o <<0, 0, 0, 0, 0, 0>>
           /\ PubsOf(log[i].pkt) = <<>>

----------------------------------------------------------------------------
(* C8 *)

\* C8: an I/O failure of a send or a receive is followed by exactly one
\* Disconnected and by nothing else: the engine has returned, it sends and
\* publishes nothing further, Disconnected is published only for an I/O
\* failure, and a consumer that drained the queue was told so last and
\* then got nothing.
C8_DisconnectOnIoError ==
    /\ \A i \in DOMAIN log :
          log[i].ev = "ioerr" =>
              /\ i + 1 = Len(log)
              /\ log[i + 1] = Ev("pub", log[i].pkt, Disconnected)
              /\ pc = "done"
              /\ ~txAlive
    /\ \A i \in DOMAIN log :
          (log[i].ev = "pub" /\ log[i].data.type = "Disconnected") =>
              (i > 1 /\ log[i - 1].ev = "ioerr")
    /\ (StreamEnded /\ \E i \in DOMAIN log : log[i].ev = "ioerr") =>
          /\ Received # <<>>
          /\ Received[Len(Received)] = Disconnected
          /\ Cardinality({i \in DOMAIN Received : Received[i] = Disconnected}) = 1

\* the send of an ack failed, and the consumer received a command, then
\* Disconnected, then nothing
C8_Witness ==
    /\ StreamEnded
    /\ \E i \in DOMAIN log : log[i].ev = "ioerr" /\ log[i].pkt > 0
    /\ Len(Received) >= 2

----------------------------------------------------------------------------
(* C9 *)

\* the tags of the record catalog
CatalogTags ==
    {d.tag : d \in FixedDecoders} \cup {d.tag : d \in OpaqueDecoders}
    \cup {<<95, 112, 105, 110>>, <<73, 110, 80, 114>>, <<84, 108, 73, 110>>,
          <<84, 108, 83, 114>>, <<75, 101, 79, 110>>, <<75, 101, 66, 80>>}

IsAscii(tag) == \A i \in DOMAIN tag : tag[i] <= 127

\* the n-th packet's payload is decoded by the engine: it is not answered
\* as a hello
Decoded(n) == ~\E j \in DOMAIN log : IsSendFor(log[j]) /\ log[j].pkt = n /\ ~IsAckReply(log[j])

\* C9: a record whose (ASCII) tag is not in the catalog is published as
\* ParsingFailed(UnknownCommand(tag)) and the records after it are still
\* decoded: the engine does not die on such a record, and when a decoded
\* packet is done, one message per record has been published; for the payload _ver, XyZw, Powr these are Command(Version),
\* ParsingFailed(UnknownCommand("XyZw")), Command(PowerState) in that order.
C9_UnknownTagContinues ==
    /\ (pc = "panicked" /\ WireTags(payload) # <<>>) =>
          ~(IsAscii(WireTags(payload)[1]) /\ WireTags(payload)[1] \notin CatalogTags)
    /\ \A n \in 1..NumRx(log) :
        LET raw == RxRaw(n)
            tags == WireTags(SubSeq(raw, 13, Len(raw)))
        IN  (Len(raw) >= 12 /\ Decoded(n)) =>
              /\ \A k \in DOMAIN PubsOf(n) :
                    (k <= Len(tags) /\ IsAscii(tags[k]) /\ tags[k] \notin CatalogTags) =>
                        PubsOf(n)[k] = Msg("ParsingFailed", "UnknownCommand", tags[k])
              /\ (PacketDone(n) /\ \E k \in DOMAIN tags : tags[k] \notin CatalogTags) =>
                    Len(PubsOf(n)) = Len(tags)
              /\ (PacketDone(n) /\ tags = <<<<95, 118, 101, 114>>, <<88, 121, 90, 119>>,
                                            <<80, 111, 119, 114>>>>) =>
                    PubsOf(n) = <<Msg("Command", "Version", <<2, 28>>),
                                  Msg("ParsingFailed", "UnknownCommand", <<88, 121, 90, 119>>),
                                  Msg("Command", "PowerState", <<1, 1>>)>>

\* the consumer received Version, UnknownCommand(XyZw) and PowerState
C9_Witness ==
    \E i \in DOMAIN Received :
        /\ i + 2 <= Len(Received)
        /\ Received[i].variant = "Version"
        /\ Received[i + 1] = Msg("ParsingFailed", "UnknownCommand", <<88, 121, 90, 119>>)
        /\ Received[i + 2].variant = "PowerState"

----------------------------------------------------------------------------
(* C10 *)

\* C10: whenever recv_message() has returned None, the message delivered
\* just before it was Disconnected.
C10_OnlyDisconnectedEnds ==
    StreamEnded => (Received # <<>> /\ Received[Len(Received)].type = "Disconnected")

----------------------------------------------------------------------------
(* C11 *)

\* the declared size of the packet that starts the bytes raw
WireSize(raw) == (raw[1] % 8) * 256 + raw[2]

\* the bytes at a packet start do not hold the packet they announce
TruncatedPacket(raw) ==
    \/ Len(raw) < 12
    \/ WireSize(raw) < 12
    \/ WireSize(raw) > Len(raw)

\* C11: a packet whose header or declared payload runs past the end of the
\* datagram is not fatal: the engine is still running after it, its sender
\* is open, and a ParsingFailed has been published for it.
C11_TruncatedPacketNonFatal ==
    \A i \in DOMAIN log :
        (log[i].ev = "rx" /\ TruncatedPacket(log[i].data)) =>
            /\ pc # "panicked"
            /\ txAlive \/ pc = "done"
            /\ \E j \in DOMAIN log :
                   /\ j > i
                   /\ log[j].ev = "pub"
                   /\ log[j].pkt = log[i].pkt
                   /\ log[j].data.type = "ParsingFailed"

----------------------------------------------------------------------------
(* C12 *)

\* fewer than 8 bytes at a record start, or fewer body bytes than declared
TruncatedRecord(b) ==
    \/ Len(b) < 8
    \/ (b[1] * 256 + b[2]) - 8 > Len(b) - 8

\* C12: when the payload splitter has been applied to a truncated record,
\* the engine has not crashed and the last message it published is a
\* ParsingFailed carrying the Truncated error.
C12_TruncatedRecordReported ==
    (payload # <<>> /\ TruncatedRecord(payload) /\ pc # "payload") =>
        /\ pc # "panicked"
        /\ Published # <<>>
        /\ Published[Len(Published)].type = "ParsingFailed"
        /\ Published[Len(Published)].variant = "Truncated"

----------------------------------------------------------------------------
(* C13 *)

\* the packet was serialized and read back from a buffer
ReadBack == codec.pc = "deserialized"

\* deserialize returned the packet it was given and left exactly the bytes
\* that followed it
RoundTrips ==
    /\ ~codec.out.panic
    /\ codec.out.packet = codec.p
    /\ codec.out.rest = codec.tail

\* C13 as stated: every packet with a flag set over the four declared flags
\* (the empty set included) and a payload that is absent or of any length
\* from 0 to 2035 is read back equal, and exactly its bytes are consumed.
C13_RoundTripAll ==
    (ReadBack /\ codec.p.flags.some) => RoundTrips

\* C13, amended: the same for packets whose payload is absent or at least
\* one byte long; a present but empty payload is read back as absent, with
\* everything else equal.
C13_RoundTrip ==
    /\ (ReadBack /\ codec.p.flags.some
            /\ (codec.p.payload.some => codec.p.payload.bytes # <<>>)) => RoundTrips
    /\ (ReadBack /\ codec.p.flags.some
            /\ codec.p.payload.some /\ codec.p.payload.bytes = <<>>) =>
           /\ ~codec.out.panic
           /\ codec.out.packet = [codec.p EXCEPT !.payload = NoBytes]
           /\ codec.out.rest = codec.tail

\* a packet with every declared flag and the longest payload went round,
\* read from a buffer that holds more than the packet
C13_Witness ==
    /\ ReadBack
    /\ codec.p.flags = SomeFlags(PacketFlagAll)
    /\ codec.p.payload.some
    /\ Len(codec.p.payload.bytes) = MaxPayloadLen
    /\ codec.p.uid = 65535
    /\ codec.tail # <<>>
    /\ RoundTrips

----------------------------------------------------------------------------
(* C14 *)

\* the packet has been serialized
Serialized == codec.pc \in {"serialized", "deserialized"}

\* the flag bits of a packet, none when it has no flags
FlagBitsOf(p) == IF p.flags.some THEN p.flags.bits ELSE 0

PayloadOf(p) == IF p.payload.some THEN p.payload.bytes ELSE <<>>

\* C14: the serialized packet is the big-endian word flags * 2^11 + 12 +
\* payload length, then uid, ack_id, four zero bytes, id, all big-endian,
\* then the payload; for payloads of up to 2035 bytes the low 11 bits of the
\* first word are the size and its 5 high bits the flags; HELLO with uid
\* 0x5706 and the body 01 00 00 00 00 00 00 00 gives the bytes of the
\* repository's test vector.
C14_SerializeLayout ==
    Serialized =>
        LET p == codec.p
            b == codec.bytes
            n == Len(PayloadOf(p))
            word == b[1] * 256 + b[2]
        IN  /\ Len(b) = 12 + n
            /\ word = FlagBitsOf(p) * 2048 + 12 + n
            /\ word % 2048 = 12 + n
            /\ word \div 2048 = FlagBitsOf(p)
            /\ b[3] = p.uid \div 256 /\ b[4] = p.uid % 256
            /\ b[5] = p.ack_id \div 256 /\ b[6] = p.ack_id % 256
            /\ SubSeq(b, 7, 10) = <<0, 0, 0, 0>>
            /\ b[11] = p.id \div 256 /\ b[12] = p.id % 256
            /\ SubSeq(b, 13, Len(b)) = PayloadOf(p)
            /\ p = Packet_new(SomeFlags(HELLO), 22278, 0, 0,
                             SomeBytes(<<1, 0, 0, 0, 0, 0, 0, 0>>))
                 => b = <<16, 20, 87, 6, 0, 0, 0, 0, 0, 0, 0, 0,
                          1, 0, 0, 0, 0, 0, 0, 0>>

\* a packet with all four flags and a payload of 2035 bytes was serialized:
\* its first word is BF FF
C14_Witness ==
    /\ Serialized
    /\ codec.p.flags = SomeFlags(PacketFlagAll)
    /\ Len(PayloadOf(codec.p)) = MaxPayloadLen
    /\ codec.p.uid = 22278
    /\ Take(codec.bytes, 4) = <<191, 255, 87, 6>>

----------------------------------------------------------------------------
(* C15 *)

\* the packets a datagram holds, cut by their declared sizes; bytes that do
\* not hold a whole packet come last, as one piece
RECURSIVE WirePackets(_)
WirePackets(d) ==
    IF d = <<>> THEN <<>>
    ELSE IF TruncatedPacket(d) THEN <<d>>
    ELSE <<Take(d, WireSize(d))>> \o WirePackets(Drop(d, WireSize(d)))

\* the datagram consists of whole packets
WholePackets(d) ==
    d # <<>> /\ \A k \in DOMAIN WirePackets(d) : ~TruncatedPacket(WirePackets(d)[k])

\* the position after the part of the history that belongs to the datagram
\* logged at i
SegEnd(i) ==
    IF \E j \in DOMAIN log : j > i /\ log[j].ev = "dgram"
    THEN CHOOSE j \in DOMAIN log :
            /\ j > i /\ log[j].ev = "dgram"
            /\ \A k \in DOMAIN log : (k > i /\ log[k].ev = "dgram") => j <= k
    ELSE Len(log) + 1

IsRx(e) == e.ev = "rx"

\* the packets taken from the datagram logged at i, in the order taken
RxsOf(i) ==
    LET rxs == SelectSeq(SubSeq(log, i + 1, SegEnd(i) - 1), IsRx)
    IN  [k \in 1..Len(rxs) |-> rxs[k].data]

\* C15: the packets of a datagram that holds several whole packets are
\* taken in datagram order, none skipped (also not after a HELLO packet),
\* and the engine is back at the receive, or has received the next
\* datagram, only when all of them have been taken.
C15_CoalescedInOrder ==
    \A i \in DOMAIN log :
        (log[i].ev = "dgram" /\ WholePackets(log[i].data)) =>
            LET W == WirePackets(log[i].data)
            IN  /\ Len(RxsOf(i)) <= Len(W)
                /\ RxsOf(i) = Take(W, Len(RxsOf(i)))
                /\ (SegEnd(i) <= Len(log) \/ pc = "recv") => RxsOf(i) = W

\* the datagram with a HELLO packet between two others was worked through:
\* the first packet was acked and decoded, the hello answered, and the
\* third packet decoded, in that order
C15_Witness ==
    \E i \in DOMAIN log :
        /\ log[i].ev = "dgram"
        /\ Len(WirePackets(log[i].data)) = 3
        /\ WireHasFlag(WirePackets(log[i].data)[2], HELLO)
        /\ RxsOf(i) = WirePackets(log[i].data)
        /\ pc = "recv"
        /\ \E a, b, c, d \in DOMAIN log :
               /\ i < a /\ a < b /\ b < c /\ c < d
               /\ log[a].ev = "send" /\ log[b].ev = "pub"
               /\ log[c].ev = "send" /\ log[d].ev = "pub"
               /\ log[b].pkt = log[a].pkt
               /\ log[c].pkt = log[a].pkt + 1
               /\ log[d].pkt = log[a].pkt + 2
               /\ log[d].data.variant = "Version"

----------------------------------------------------------------------------
(* C16 *)

\* C16: a whole packet that carries ACK_REQUEST or HELLO together with the
\* reserved flag bit 0x08 is answered like the same packet without that
\* bit: once the engine has dealt with it, an acknowledgement for it is on
\* the socket.
C16_ReservedBitsIgnored ==
    \A i \in DOMAIN log :
        ( /\ log[i].ev = "rx"
          /\ ~TruncatedPacket(log[i].data)
          /\ WireHasFlag(log[i].data, 8)
          /\ WireHasFlag(log[i].data, ACK_REQUEST) \/ WireHasFlag(log[i].data, HELLO)
          /\ PacketDone(log[i].pkt) ) =>
            \E j \in DOMAIN log :
                /\ j > i
                /\ log[j].ev = "send"
                /\ log[j].pkt = log[i].pkt
                /\ WireUid(log[j].data) = WireUid(log[i].data)
                /\ WireAckId(log[j].data) = WireId(log[i].data)

----------------------------------------------------------------------------
(* C17 *)

\* the number of the datagram that the history entry at j belongs to
DgramIndex(j) == Cardinality({k \in 1..j : log[k].ev = "dgram"})

\* C17: once the Connection has been dropped the engine is cancelled: no
\* acknowledgement is sent for a packet of a datagram that arrived after
\* the drop.
C17_DropCancelsEngine ==
    dropAt >= 0 =>
        \A j \in DOMAIN log : IsSendFor(log[j]) => DgramIndex(j) <= dropAt

----------------------------------------------------------------------------
(* C18 *)

\* open() has returned Ok(Connection)
OpenReturnedHandle == opener.result = "Ok"

\* the HELLO is on the socket
HelloSent == sent # <<>> /\ sent[1] = send_hello_packet

\* C18 as stated: whenever the caller holds a handle returned by open, the
\* socket is bound and connected and the HELLO has been sent.
C18_HelloBeforeReturn ==
    OpenReturnedHandle => (socket = "connected" /\ HelloSent)

\* C18, amended: whenever the caller holds a handle returned by open, the
\* socket is bound and connected and the engine task has been spawned; the
\* HELLO is sent by that task as its first step, so while it is not on the
\* socket the task is either about to send it or has ended on the failed
\* send, and nothing has been received or acknowledged.
C18_SpawnBeforeReturn ==
    OpenReturnedHandle =>
        /\ socket = "connected"
        /\ pc # "unspawned"
        /\ ~HelloSent =>
              /\ pc \in {"start", "done"}
              /\ sent = <<>>
              /\ nrecv = 0
              /\ pc = "done" => Published = <<Disconnected>>

\* the caller holds the handle and no HELLO has been sent yet
C18_Witness ==
    /\ OpenReturnedHandle
    /\ HandleHeld
    /\ pc = "start"
    /\ ~HelloSent

----------------------------------------------------------------------------
(* C19 *)

\* the engine task has ended: run() returned or panicked
EngineTerminated == pc \in {"done", "panicked"}

\* C19: when recv_message has returned None, the engine has terminated, the
\* queue is empty, every message the engine published has been delivered
\* before that None, and no None was delivered earlier.
C19_NoneOnlyAtEnd ==
    StreamEnded =>
        /\ EngineTerminated
        /\ ~txAlive
        /\ chan = <<>>
        /\ Received = Published
        /\ \A i \in 1..(Len(delivered) - 1) : delivered[i] # NoMessage

\* the consumer was handed a command and the Disconnected, then None
C19_Witness ==
    /\ StreamEnded
    /\ Len(Received) >= 2
    /\ Received[1].type = "Command"
    /\ Received[Len(Received)] = Disconnected
    /\ pc = "done"

----------------------------------------------------------------------------
(* C20 *)

\* the one host string among Addresses that is an address: "10.0.0.2"
ValidHost == <<49, 48, 46, 48, 46, 48, 46, 50>>

\* C20: when the host string is not a valid address, open does nothing but
\* return the address-parse error: it never gets past the parse, no socket
\* is bound, no engine task exists, nothing is sent and nothing is ever
\* published or delivered.
C20_InvalidAddressNoEffect ==
    opener.address # ValidHost =>
        /\ opener.pc \in {"call", "returned"}
        /\ opener.pc = "returned" => opener.result = "AddrParseError"
        /\ socket = "none"
        /\ pc = "unspawned"
        /\ ~txAlive /\ ~rxAlive
        /\ sent = <<>>
        /\ log = <<>>
        /\ chan = <<>>
        /\ delivered = <<>>

\* open("10.0.0.256") has returned the address-parse error
C20_Witness ==
    /\ opener.address = <<49, 48, 46, 48, 46, 48, 46, 50, 53, 54>>
    /\ opener.pc = "returned"
    /\ opener.result = "AddrParseError"
    /\ socket = "none"

----------------------------------------------------------------------------
(* C21 *)

\* C21: no record whose tag is in the record catalog is reported as
\* UnknownCommand; a KeOn record is published as Command(KeyerOnAir) and a
\* KeBP record as Command(KeyerBaseProperties).
C21_CatalogTagsDispatched ==
    \A i \in DOMAIN log :
        log[i].ev = "pub" =>
            ~( /\ log[i].data.type = "ParsingFailed"
               /\ log[i].data.variant = "UnknownCommand"
               /\ log[i].data.data \in CatalogTags )

----------------------------------------------------------------------------
(* C22 *)

\* the flag f as the engine sees it after Packet::deserialize: lost with
\* all other flags when the reserved bit is set
EffFlag(raw, f) == ~WireHasFlag(raw, 8) /\ WireHasFlag(raw, f)

\* the records of a payload, cut by their declared sizes; bytes that do not
\* hold a whole record are left out
RECURSIVE WireRecords(_)
WireRecords(b) ==
    IF Len(b) < 8 THEN <<>>
    ELSE LET size == b[1] * 256 + b[2]
         IN  IF size < 8 \/ size > Len(b) THEN <<>>
             ELSE <<[tag |-> SubSeq(b, 5, 8), body |-> SubSeq(b, 9, size)]>>
                  \o WireRecords(SubSeq(b, size + 1, Len(b)))

\* the declared sizes of the first k records, summed
RECURSIVE SizeSum(_, _)
SizeSum(recs, k) == IF k = 0 THEN 0 ELSE SizeSum(recs, k - 1) + 8 + Len(recs[k].body)

\* the shortest body the layout of a record allows (for the tags the peer
\* uses here); -1 for a tag without a layout
MinBody(tag) ==
    IF tag = <<95, 118, 101, 114>> THEN 4
    ELSE IF tag = <<80, 111, 119, 114>> THEN 1
    ELSE IF tag = <<75, 101, 79, 110>> THEN 3
    ELSE IF tag = <<75, 101, 66, 80>> THEN 8
    ELSE IF tag = <<73, 110, 80, 114>> THEN 36
    ELSE -1

\* a record of the catalog whose body is as long as its layout and, for
\* InPr, holds declared flag bits only
ValidRecord(r) ==
    /\ MinBody(r.tag) >= 0
    /\ Len(r.body) >= MinBody(r.tag)
    /\ r.tag = <<73, 110, 80, 114>> =>
          /\ BitAnd(get_u16(r.body, 29), U16Mod - 1 - InputFlagsAll) = 0
          /\ BitAnd(r.body[35], 255 - FunctionFlagsAll) = 0

\* the payload is made of valid records and of nothing else
ValidPayload(b) ==
    /\ WireRecords(b) # <<>>
    /\ SizeSum(WireRecords(b), Len(WireRecords(b))) = Len(b)
    /\ \A k \in DOMAIN WireRecords(b) : ValidRecord(WireRecords(b)[k])

\* the n-th packet is whole, is not answered as a hello and its payload is
\* made of valid records
ValidDecoded(n) ==
    /\ ~TruncatedPacket(RxRaw(n))
    /\ ~EffFlag(RxRaw(n), HELLO)
    /\ ValidPayload(Drop(RxRaw(n), 12))

\* C22: for a payload made of valid records R1..Rn the engine publishes one
\* message per record, in record order; while it is in the record loop the
\* buffer it holds starts exactly at a record boundary, the declared sizes
\* of the records before it summed, and as many messages have been
\* published as records lie before that boundary; when the packet is done
\* there are n messages and the sizes sum to the payload length.
C22_OneMessagePerRecord ==
    \A n \in 1..NumRx(log) :
        ValidDecoded(n) =>
            LET full == Drop(RxRaw(n), 12)
                recs == WireRecords(full)
            IN  /\ Len(PubsOf(n)) <= Len(recs)
                /\ \A k \in DOMAIN PubsOf(n) :
                      PubsOf(n)[k].variant = VariantOfTag(recs[k].tag)
                /\ (n = NumRx(log) /\ pc = "payload") =>
                      /\ Len(PubsOf(n)) < Len(recs)
                      /\ payload = Drop(full, SizeSum(recs, Len(PubsOf(n))))
                /\ (n = NumRx(log)) => pc # "panicked"
                /\ PacketDone(n) =>
                      /\ Len(PubsOf(n)) = Len(recs)
                      /\ SizeSum(recs, Len(recs)) = Len(full)

\* the payload of five records, the first with a body longer than its
\* decoder reads, has been published as five messages
C22_Witness ==
    \E n \in 1..NumRx(log) :
        /\ ValidDecoded(n)
        /\ PacketDone(n)
        /\ Len(WireRecords(Drop(RxRaw(n), 12))) = 5
        /\ Len(WireRecords(Drop(RxRaw(n), 12))[1].body) > MinBody(<<80, 111, 119, 114>>)
        /\ Len(PubsOf(n)) = 5
        /\ PubsOf(n)[1] = Msg("Command", "PowerState", <<1, 0>>)
        /\ PubsOf(n)[5] = Msg("Command", "Version", <<2, 28>>)

----------------------------------------------------------------------------
(* C23 *)

\* the buffer starts with a record header that declares a size of at least
\* 8 and of no more than the bytes that remain
WellFormedHeader(b) ==
    /\ Len(b) >= 8
    /\ b[1] * 256 + b[2] >= 8
    /\ b[1] * 256 + b[2] <= Len(b)

\* C23: a record with a well-formed header never stops the engine, whatever
\* its body holds: the record loop is not left by a crash while the buffer
\* starts with such a record.
C23_MalformedBodyNonFatal ==
    (payload # <<>> /\ WellFormedHeader(payload)) => pc # "panicked"

----------------------------------------------------------------------------
(* C24 *)

\* the body of the record the buffer starts with
FirstBody(b) == SubSeq(b, 9, b[1] * 256 + b[2])

\* the buffer starts with a whole InPr record of the full layout
StartsWithInPr(b) ==
    /\ WellFormedHeader(b)
    /\ SubSeq(b, 5, 8) = <<73, 110, 80, 114>>
    /\ Len(FirstBody(b)) >= 36

\* C24: an InPr record of the full layout with valid names never stops the
\* engine, whatever bits and values its fields hold; every message
\* published for an InPr record is a Command(Source) that carries the
\* fields as they were received.
C24_InPrNeverFails ==
    /\ (payload # <<>> /\ StartsWithInPr(payload)
            /\ Utf8Valid(UntilNul(SubSeq(FirstBody(payload), 3, 22)))
            /\ Utf8Valid(UntilNul(SubSeq(FirstBody(payload), 23, 26))))
          => pc # "panicked"
    /\ \A n \in 1..NumRx(log) :
          (~TruncatedPacket(RxRaw(n)) /\ ~EffFlag(RxRaw(n), HELLO)) =>
              LET recs == WireRecords(Drop(RxRaw(n), 12))
              IN  \A k \in DOMAIN PubsOf(n) :
                     (k <= Len(recs) /\ recs[k].tag = <<73, 110, 80, 114>>
                         /\ Len(recs[k].body) >= 36) =>
                        PubsOf(n)[k] = Msg("Command", "Source", Take(recs[k].body, 36))

----------------------------------------------------------------------------
(* C25 *)

\* the n-th packet is a whole packet without payload
ZeroLength(n) == Len(RxRaw(n)) = 12 /\ WireSize(RxRaw(n)) = 12

\* the sending of the reply to the n-th packet failed: the I/O error came
\* right after the packet was taken, and the packet is one the engine
\* answers
SendFailed(n) ==
    \E j \in DOMAIN log :
        /\ log[j].ev = "ioerr" /\ log[j].pkt = n
        /\ j > 1 /\ log[j - 1].ev = "rx"
        /\ EffFlag(log[j - 1].data, HELLO) \/ EffFlag(log[j - 1].data, ACK_REQUEST)

\* the datagrams sent in reply to the n-th packet
SendsFor(n) == {j \in DOMAIN log : log[j].ev = "send" /\ log[j].pkt = n}

\* how many of the first n packets are whole and carry ACK_REQUEST without HELLO
AckRequestsUpTo(n) ==
    Cardinality({m \in 1..n : /\ ~TruncatedPacket(RxRaw(m))
                               /\ WireHasFlag(RxRaw(m), ACK_REQUEST)
                               /\ ~WireHasFlag(RxRaw(m), HELLO)})

\* C25: a whole packet of size 12 has no message published for it and does
\* not stop the engine; when it carries ACK_REQUEST (and not HELLO) it is
\* acknowledged once, with the id an ack-requested packet at its place in
\* the stream gets.
C25_ZeroLengthPayload ==
    \A n \in 1..NumRx(log) :
        ZeroLength(n) =>
            /\ PubsOf(n) = <<>>
            /\ n = NumRx(log) => pc \notin {"panicked", "payload"}
            /\ ( /\ WireHasFlag(RxRaw(n), ACK_REQUEST)
                 /\ ~WireHasFlag(RxRaw(n), HELLO)
                 /\ ~SendFailed(n) ) =>
                   /\ Cardinality(SendsFor(n)) = 1
                   /\ \A j \in SendsFor(n) : WireId(log[j].data) = AckRequestsUpTo(n)

----------------------------------------------------------------------------
(* C26 *)

\* the id the ack sent for the n-th packet carries, -1 when none was sent
AckIdFor(n) ==
    IF SendsFor(n) = {} THEN -1
    ELSE WireId(log[CHOOSE j \in SendsFor(n) : TRUE].data)

\* C26: two whole packets with the same HELLO and ACK_REQUEST flags and the
\* same payload are handled alike, whatever their ids and RESEND flags and
\* whatever was received between them: either both are answered or
\* neither, the same messages are published for both, and when they are
\* ack-requested the later one is acknowledged with a fresh id, higher by
\* the number of ack-requested packets since the earlier one.
C26_NoDedupNoResend ==
    \A m, n \in 1..NumRx(log) :
        ( /\ m < n
          /\ ~TruncatedPacket(RxRaw(m)) /\ ~TruncatedPacket(RxRaw(n))
          /\ WireHasFlag(RxRaw(m), HELLO) = WireHasFlag(RxRaw(n), HELLO)
          /\ WireHasFlag(RxRaw(m), ACK_REQUEST) = WireHasFlag(RxRaw(n), ACK_REQUEST)
          /\ Drop(RxRaw(m), 12) = Drop(RxRaw(n), 12)
          /\ PacketDone(n) ) =>
            /\ (SendsFor(m) = {}) = (SendsFor(n) = {})
            /\ PubsOf(m) = PubsOf(n)
            /\ ( WireHasFlag(RxRaw(n), ACK_REQUEST) /\ ~WireHasFlag(RxRaw(n), HELLO) ) =>
                  AckIdFor(n) = AckIdFor(m) + AckRequestsUpTo(n) - AckRequestsUpTo(m)

----------------------------------------------------------------------------
(* C27 *)

IsSend(e) == e.ev = "send"

\* every datagram the history says was sent, in order
Sends ==
    LET sends == SelectSeq(log, IsSend)
    IN  [i \in 1..Len(sends) |-> sends[i].data]

\* the n-th packet is whole and deserializes with HELLO or ACK_REQUEST set
WantsReply(n) ==
    /\ ~TruncatedPacket(RxRaw(n))
    /\ EffFlag(RxRaw(n), HELLO) \/ EffFlag(RxRaw(n), ACK_REQUEST)

\* C27: what the engine has sent is the HELLO, once and first, and then one
\* ACK for each received packet that deserializes with HELLO or
\* ACK_REQUEST set (unless that very send failed), in receive order; the
\* ack is there whatever happens to the payload afterwards; a packet that
\* deserializes with neither flag has no datagram sent for it, and the
\* counter stands at the number of packets that deserialized with
\* ACK_REQUEST and without HELLO.
C27_ExactSends ==
    /\ sent = Sends
    /\ sent # <<>> =>
          sent[1] = <<16, 20, 19, 55, 0, 0, 0, 0, 0, 0, 0, 0, 1, 0, 0, 0, 0, 0, 0, 0>>
    /\ \A i, j \in DOMAIN log :
          (i < j /\ log[i].ev = "send" /\ log[j].ev = "send") => log[i].pkt < log[j].pkt
    /\ \A n \in 1..NumRx(log) :
          /\ Cardinality(SendsFor(n)) = IF WantsReply(n) /\ ~SendFailed(n) THEN 1 ELSE 0
          /\ \A j \in SendsFor(n) : Len(log[j].data) = 12 /\ WireFlags(log[j].data) = ACK
    /\ packet_id = Cardinality({n \in 1..NumRx(log) :
                                   /\ ~TruncatedPacket(RxRaw(n))
                                   /\ EffFlag(RxRaw(n), ACK_REQUEST)
                                   /\ ~EffFlag(RxRaw(n), HELLO)})

\* a packet without flags was decoded without a send, then an ack-requested
\* packet was acknowledged and the engine died on its payload
C27_Witness ==
    /\ NumRx(log) = 2
    /\ ~TruncatedPacket(RxRaw(1)) /\ ~WantsReply(1)
    /\ PubsOf(1) # <<>>
    /\ WantsReply(2)
    /\ pc = "panicked" /\ payload # <<>>
    /\ Len(sent) = 2
    /\ packet_id = 1

----------------------------------------------------------------------------
(* C28 *)

\* C28: a whole packet with both HELLO and ACK_REQUEST set is answered as
\* a hello and as nothing else: unless the send fails, exactly one ack is
\* sent for it and that ack has id 0; no message is published for it; and
\* the counter is not advanced for it.
C28_HelloWins ==
    \A n \in 1..NumRx(log) :
        ( /\ ~TruncatedPacket(RxRaw(n))
          /\ WireHasFlag(RxRaw(n), HELLO)
          /\ WireHasFlag(RxRaw(n), ACK_REQUEST) ) =>
            /\ Cardinality(SendsFor(n)) <= 1
            /\ (PacketDone(n) \/ PubsOf(n) # <<>>) => Cardinality(SendsFor(n)) = 1
            /\ \A j \in SendsFor(n) : WireId(log[j].data) = 0
            /\ PubsOf(n) = <<>>
            /\ n = NumRx(log) => packet_id = AckRequestsUpTo(n)

----------------------------------------------------------------------------
(* C29 *)

\* the engine task is inside the loops that work through one datagram
Busy == pc \in {"packets", "payload"}

\* the step is one of the engine task, not of the consumer
EngineStep == pc' # pc \/ log' # log

\* one iteration of either loop shrinks the buffer the loop tests, or stops
\* the engine; an empty datagram changes nothing but the count of datagrams
LoopsShrink ==
    /\ (pc = "packets" /\ EngineStep) =>
          \/ pc' \in {"panicked", "done"}
          \/ Len(packets') <= Len(packets) - HEADER_SIZE
    /\ (pc = "payload" /\ EngineStep) =>
          \/ pc' = "panicked"
          \/ /\ Len(payload') <= Len(payload) - 8
             /\ packets' = packets
    /\ (pc = "recv" /\ nrecv' # nrecv /\ packets' = <<>>) =>
          /\ pc' = "recv"
          /\ sent' = sent
          /\ chan' = chan
          /\ log' = Append(log, Ev("dgram", NumRx(log), <<>>))

\* open("10.0.0.2") has returned Ok and the task it spawned has not run yet
InitRun ==
    /\ pc = "start"
    /\ packet_id = 0
    /\ packets = <<>>
    /\ packet = NoPacket
    /\ payload = <<>>
    /\ sent = <<>>
    /\ chan = <<>>
    /\ txAlive = TRUE
    /\ rxAlive = TRUE
    /\ delivered = <<>>
    /\ nrecv = 0
    /\ log = <<>>
    /\ dropAt = -1
    /\ opener = [pc |-> "returned", address |-> <<49, 48, 46, 48, 46, 48, 46, 50>>,
                 result |-> "Ok"]
    /\ socket = "connected"
    /\ codec = CodecIdle

\* the engine task, and the consumer dropping the Connection. What the
\* consumer reads is left out: recv_message() only takes from the unbounded
\* channel, which the engine never waits on, so a read can neither enable
\* nor disable nor change a step of the engine
NextRun ==
    \/ SendHello
    \/ RecvDatagram
    \/ ProcessPacket
    \/ ParseRecord
    \/ DropConnection

\* the engine task runs: a loop iteration that can be taken is taken
SpecLive ==
    InitRun /\ [][NextRun]_vars /\ WF_vars(ProcessPacket) /\ WF_vars(ParseRecord)

\* C29: working through one received datagram always ends. Every iteration
\* of the packet loop takes at least 12 bytes off the datagram and every
\* iteration of the record loop takes at least 8 bytes off the payload, or
\* the engine stops; an empty datagram is skipped with no send and no
\* message; so the engine always leaves the two loops.
C29_DatagramTerminates == [][LoopsShrink]_vars /\ (Busy ~> ~Busy)

\* an empty datagram was skipped and a datagram of one packet with five
\* records was worked through to the end
C29_Witness ==
    /\ pc = "recv"
    /\ packets = <<>>
    /\ \E i, j \in DOMAIN log :
          /\ i < j
          /\ log[i] = Ev("dgram", 0, <<>>)
          /\ log[j].ev = "dgram"
          /\ \A k \in (i + 1)..(j - 1) : log[k].ev \notin {"send", "pub", "rx"}
          /\ Len(log[j].data) > HEADER_SIZE
          /\ Len(SelectSeq(SubSeq(log, j + 1, Len(log)), IsPub)) = 5

----------------------------------------------------------------------------
(* C30 *)

\* a session in which run() has acknowledged 65534 or 65535 packets and waits
\* in recv_buf; sent, log and nrecv record what happens from here on
InitWrap ==
    /\ pc = "recv"
    /\ packet_id \in {U16Mod - 2, U16Mod - 1}
    /\ packets = <<>>
    /\ packet = NoPacket
    /\ payload = <<>>
    /\ sent = <<>>
    /\ chan = <<>>
    /\ txAlive = TRUE
    /\ rxAlive = TRUE
    /\ delivered = <<>>
    /\ nrecv = 0
    /\ log = <<>>
    /\ dropAt = -1
    /\ opener = [pc |-> "returned", address |-> <<49, 48, 46, 48, 46, 48, 46, 50>>,
                 result |-> "Ok"]
    /\ socket = "connected"
    /\ codec = CodecIdle

\* the receive loop of run(), and the consumer dropping the Connection
NextWrap ==
    \/ RecvDatagram
    \/ ProcessPacket
    \/ ParseRecord
    \/ DropConnection

SpecWrap == InitWrap /\ [][NextWrap]_vars

\* C30: the ids of the replies to ACK_REQUEST packets only ever go up within
\* a session: no reply carries an id lower than or equal to the id of an
\* earlier reply.
C30_AckIdsIncrease ==
    \A i, j \in DOMAIN AckReplies :
        i < j => WireId(AckReplies[i].data) < WireId(AckReplies[j].data)

====
